---- MODULE Spec2Model ----
(***************************************************************************)
(* A model of trimics.py: the class ical (a calendar container built on   *)
(* icalendar.Calendar), its recency filter, its extension stripper, its   *)
(* lookups, and the command-line pipeline of the __main__ block.          *)
(*                                                                         *)
(* An event (icalendar.Event, a dictionary with upper-cased keys) is a set *)
(* of fields <<name, value>> with unique names.  A field name and a text   *)
(* value are sequences of one-character strings, so that the substring and *)
(* case operations of the code are computed and not assumed.  A date or a  *)
(* date-time is a record [isdt, day, tod]: isdt tells datetime.datetime    *)
(* from datetime.date, day is the calendar day, tod the time of day.       *)
(* An optional value (Event | None) is a sequence of length 0 or 1.        *)
(***************************************************************************)
EXTENDS Integers, Sequences, FiniteSets, TLC

VARIABLES
    self,      \* the ical object of the container operations: [_calendar, _events]
    last,      \* the last operation called on it, with its arguments and its result
    pc,        \* __main__: the statement the script is at
    args,      \* __main__: the parsed command line and the environment of the run
    incal,     \* __main__: the input container
    outcal,    \* __main__: the output container
    todo,      \* __main__: the events the for loop has still to visit
    run        \* __main__: what the run did so far

vars == <<self, last, pc, args, incal, outcal, todo, run>>

mainVars == <<pc, args, incal, outcal, todo, run>>

(***************************************************************************)
(* Bounds of the model.                                                    *)
(***************************************************************************)
\* The longest component sequence of a decoded document, and the most events
\* addEvent puts into one container.
MaxEvents == 2

\* Days run over 0..MaxDay.
MaxDay == 1

\* --months-before runs over 0..MaxMonths.
MaxMonths == 1

\* The model's calendar has months of this many days, all alike.
DaysPerMonth == 1

(***************************************************************************)
(* Text: str.upper() and the substring test `a in b`.                      *)
(***************************************************************************)
UpperChar(c) ==
    CASE c = "a" -> "A"
      [] c = "b" -> "B"
      [] c = "c" -> "C"
      [] OTHER -> c

Upper(s) == [i \in 1..Len(s) |-> UpperChar(s[i])]

\* needle in hay, for two str: hay holds needle as a contiguous run.
Contains(needle, hay) ==
    \E i \in 0..(Len(hay) - Len(needle)) :
        \A j \in 1..Len(needle) : hay[i + j] = needle[j]

(***************************************************************************)
(* Field names the code uses.                                              *)
(***************************************************************************)
RRULE == <<"R", "R", "U", "L", "E">>

DTEND == <<"D", "T", "E", "N", "D">>

SUMMARY == <<"S", "U", "M", "M", "A", "R", "Y">>

\* The marker of an application-specific field: the string 'X-'.
XDash == <<"X", "-">>

(***************************************************************************)
(* Events: event[name], name in event.                                     *)
(***************************************************************************)
Has(event, name) == \E f \in event : f[1] = name

Get(event, name) == (CHOOSE f \in event : f[1] = name)[2]

None == <<>>

Some(x) == <<x>>

(***************************************************************************)
(* icalendar.Calendar as the code uses it: a dictionary of properties and  *)
(* a list of subcomponents.                                                *)
(***************************************************************************)
\* Calendar()
Calendar == [props |-> {}, subcomponents |-> <<>>]

\* Component.is_empty(): no property value and no subcomponent.
is_empty(cal) == cal.props = {} /\ cal.subcomponents = <<>>

\* Calendar.clear() is the dictionary's clear(): it empties the properties
\* and nothing else; the list of subcomponents is an attribute and stays.
clear(cal) == [cal EXCEPT !.props = {}]

\* Calendar.add(name, value) for a name the calendar does not hold yet.
add(cal, name, value) == [cal EXCEPT !.props = @ \cup {<<name, value>>}]

\* Calendar.add_component(e)
add_component(cal, e) ==
    [cal EXCEPT !.subcomponents = Append(@, [name |-> "VEVENT", fields |-> e])]

\* Calendar.walk('VEVENT'): a new list of the components of that name, in
\* document order.
walk(cal, name) ==
    LET Pick(i) == cal.subcomponents[i]
        idx == {i \in 1..Len(cal.subcomponents) : Pick(i).name = name}
        RECURSIVE From(_)
        From(i) ==
            IF i > Len(cal.subcomponents) THEN <<>>
            ELSE IF i \in idx THEN <<Pick(i).fields>> \o From(i + 1)
            ELSE From(i + 1)
    IN  From(1)

(***************************************************************************)
(* class ical                                                              *)
(***************************************************************************)
\* ical.__init__: the file name and the open file take no part in any decision
\* but the outcome of open() and of the decoder, which readFromFile and
\* writeToFile take as an argument here.
__init__(verbosity) ==
    [_calendar |-> Calendar, _events |-> <<>>, _verbosity |-> verbosity]

reset(s) ==
    IF ~is_empty(s._calendar)
    THEN [s EXCEPT !._calendar = clear(@)]
    ELSE s

createNew(s) ==
    LET r == reset(s)
    IN  [r EXCEPT !._calendar =
            add(add(Calendar, "PRODID", "Matty cleaned calendar"), "VERSION", "2.0")]

getEventCount(s) == Len(s._events)

\* list[i] of Python: a negative i counts from the end; IndexError is None here.
Subscript(list, i) ==
    IF 0 <= i /\ i < Len(list) THEN Some(list[i + 1])
    ELSE IF i < 0 /\ 0 <= i + Len(list) THEN Some(list[i + Len(list) + 1])
    ELSE None

getEvent(s, eventID) ==
    IF ~is_empty(s._calendar)
    THEN Subscript(s._events, eventID)
    ELSE None

addEvent(s, e) ==
    LET s1 == IF is_empty(s._calendar) THEN createNew(s) ELSE s
    IN  [s1 EXCEPT !._calendar = add_component(@, e),
                   !._events = Append(@, e)]

\* file is what the file system and the decoder give for self._fname:
\* [open, decodable, doc].  The result is [self, ret, exc].
readFromFile(s, file) ==
    IF is_empty(s._calendar)
    THEN IF file.open # "ok"
         THEN [self |-> s, ret |-> FALSE, exc |-> "none"]
         ELSE IF ~file.decodable
         THEN [self |-> s, ret |-> FALSE, exc |-> "ValueError"]
         ELSE [self |-> [s EXCEPT !._calendar = file.doc,
                                  !._events = walk(file.doc, "VEVENT")],
               ret |-> TRUE, exc |-> "none"]
    ELSE [self |-> s, ret |-> FALSE, exc |-> "none"]

\* outfile is what open(), to_ical() and write() do for self._fname: "ok", or
\* the exception one of them raises, which the method catches and prints.
\* The result is [ret, wrote]: wrote is "written", "failed" or "refused".
writeToFile(s, outfile) ==
    IF ~is_empty(s._calendar)
    THEN IF outfile = "ok"
         THEN [ret |-> TRUE, wrote |-> "written"]
         ELSE [ret |-> FALSE, wrote |-> "failed"]
    ELSE [ret |-> FALSE, wrote |-> "refused"]

\* The result is [exc, inx, event]: the tuple returned, or the exception raised.
findEventBySummary(s, srch, startInx) ==
    LET RECURSIVE Loop(_)
        Loop(i) ==
            LET thisEvent == getEvent(s, i)
            IN  IF thisEvent = None
                THEN [exc |-> "TypeError", inx |-> startInx, event |-> None]
                ELSE IF ~Has(thisEvent[1], SUMMARY)
                THEN [exc |-> "KeyError", inx |-> startInx, event |-> None]
                ELSE IF Contains(Upper(srch), Upper(Get(thisEvent[1], SUMMARY)))
                THEN [exc |-> "none", inx |-> i, event |-> thisEvent]
                ELSE IF i + 1 >= getEventCount(s)
                THEN [exc |-> "none", inx |-> startInx, event |-> None]
                ELSE Loop(i + 1)
    IN  IF ~is_empty(s._calendar)
        THEN Loop(startInx)
        ELSE [exc |-> "none", inx |-> startInx, event |-> None]

(***************************************************************************)
(* Dates: datetime.date and datetime.datetime.                             *)
(***************************************************************************)
Date(d) == [isdt |-> FALSE, day |-> d, tod |-> 0]

DateTime(d, t) == [isdt |-> TRUE, day |-> d, tod |-> t]

\* isinstance(v, datetime.datetime)
isdatetime(v) == v.isdt

\* datetime.date(): the date of a date-time, its time of day dropped.
date(v) == Date(v.day)

\* a >= b of Python: a date-time and a date do not compare (TypeError).
ge(a, b) ==
    IF isdatetime(a) # isdatetime(b) THEN "TypeError"
    ELSE IF a.day > b.day \/ (a.day = b.day /\ a.tod >= b.tod) THEN "True"
    ELSE "False"

\* datetime.datetime.now().date() - relativedelta(months=months), in a
\* calendar whose months all have DaysPerMonth days.
cutoffDate(today, months) == Date(today - months * DaysPerMonth)

(***************************************************************************)
(* ical.findEventsByDateAfter                                              *)
(***************************************************************************)
\* The flag as a filter that takes every RRULE for an open-ended one would
\* compute it.
recurringIgnoringUntil(event, cutoff) ==
    IF Has(event, RRULE) THEN "True" ELSE "False"

\* Lines 176-195: the flag recurring of one event, or the TypeError of the
\* comparison; the KeyError of a missing RRULE is caught and leaves False.
recurring(event, cutoff) ==
    IF ~Has(event, RRULE) THEN "False"
    ELSE LET x == Get(event, RRULE)
         IN  IF "UNTIL" \notin DOMAIN x THEN "True"
             ELSE LET u == x.UNTIL[1]
                      d == IF isdatetime(u) THEN date(u) ELSE u
                  IN  ge(d, cutoff)

\* Lines 197-201: DTEND as a date.  Only called on an event that has DTEND.
endDate(event) ==
    LET dt == Get(event, DTEND)
    IN  IF isdatetime(dt) THEN date(dt) ELSE dt

\* Lines 203-205: the test that appends the event.
endOrRecurring(endCmp, rec) == endCmp = "True" \/ rec = "True"

\* One pass of the loop body, lines 173-209: "append", "skip", or the
\* exception that leaves the loop and the method.
loopBody(event, cutoff, verbosity) ==
    LET rec == recurring(event, cutoff)
    IN  IF rec = "TypeError" THEN "TypeError"
        ELSE IF ~Has(event, DTEND) THEN "KeyError DTEND"
        ELSE LET endCmp == ge(endDate(event), cutoff)
             IN  IF endCmp = "TypeError" THEN "TypeError"
                 ELSE IF endOrRecurring(endCmp, rec)
                 THEN IF verbosity /\ ~Has(event, SUMMARY)
                      THEN "KeyError SUMMARY"
                      ELSE "append"
                 ELSE "skip"

\* The result is [exc, ret]: the list returned, or the exception raised.
findEventsByDateAfter(s, today, months) ==
    LET cutoff == cutoffDate(today, months)
        RECURSIVE Loop(_, _)
        Loop(i, retList) ==
            IF i > Len(s._events) THEN [exc |-> "none", ret |-> retList]
            ELSE LET event == s._events[i]
                     did == loopBody(event, cutoff, s._verbosity)
                 IN  IF did = "append" THEN Loop(i + 1, Append(retList, event))
                     ELSE IF did = "skip" THEN Loop(i + 1, retList)
                     ELSE [exc |-> did, ret |-> <<>>]
    IN  Loop(1, <<>>)

(***************************************************************************)
(* ical.stripApplicationSpecificSubcomponents                              *)
(***************************************************************************)
\* Line 248: 'X-' not in subComponent.
keptByStrip(subComponent) == ~Contains(XDash, subComponent)

stripApplicationSpecificSubcomponents(event) ==
    {f \in event : keptByStrip(f[1])}

(***************************************************************************)
(* The container operations, called in any order on one ical object.       *)
(***************************************************************************)
\* Nothing of __main__ runs while the operations are called one by one.
MainIdle ==
    /\ pc = "idle"
    /\ args = None
    /\ incal = None
    /\ outcal = None
    /\ todo = <<>>
    /\ run = None

\* Every sequence over S of length at most n.
SeqUpTo(S, n) == UNION {[1..k -> S] : k \in 0..n}

EvDaily == {<<SUMMARY, <<"A", "b">>>>}

EvOne == {<<SUMMARY, <<"c">>>>}

EvWeekly == {<<SUMMARY, <<"x", "a", "B">>>>}

\* The events of the container operations: the summaries of a lookup.
ContainerEvents == {EvDaily, EvOne, EvWeekly}

Needles == {<<"a", "b">>, <<"C">>, <<"z">>}

Metadata == {<<"PRODID", "some product">>, <<"VERSION", "2.0">>}

\* What Calendar.from_ical gives for a decodable file: the calendar's
\* properties and its components, VEVENT or not, in document order.
DocsOver(events) ==
    {[props |-> p, subcomponents |-> c] :
        p \in {{}, Metadata},
        c \in SeqUpTo({[name |-> "VEVENT", fields |-> e] : e \in events}
                      \cup {[name |-> "VTIMEZONE", fields |-> {}]}, MaxEvents)}

\* What open() and the decoder can do with self._fname.
FilesOver(docs) ==
    {[open |-> o, decodable |-> TRUE, doc |-> Calendar] :
        o \in {"FileNotFoundError", "PermissionError"}}
    \cup {[open |-> "ok", decodable |-> FALSE, doc |-> Calendar]}
    \cup {[open |-> "ok", decodable |-> TRUE, doc |-> d] : d \in docs}

Init ==
    /\ \E verbosity \in BOOLEAN : self = __init__(verbosity)
    /\ last = [op |-> "__init__"]
    /\ MainIdle

Reset ==
    /\ self' = reset(self)
    /\ last' = [op |-> "reset"]
    /\ UNCHANGED mainVars

CreateNew ==
    /\ self' = createNew(self)
    /\ last' = [op |-> "createNew"]
    /\ UNCHANGED mainVars

ReadFromFile ==
    \E file \in FilesOver(DocsOver(ContainerEvents)) :
        LET r == readFromFile(self, file)
        IN  /\ self' = r.self
            /\ last' = [op |-> "readFromFile", file |-> file,
                        ret |-> r.ret, exc |-> r.exc]
            /\ UNCHANGED mainVars

AddEvent ==
    \E e \in ContainerEvents :
        /\ Len(self._events) < MaxEvents
        /\ Len(self._calendar.subcomponents) < MaxEvents
        /\ self' = addEvent(self, e)
        /\ last' = [op |-> "addEvent", e |-> e, ret |-> TRUE]
        /\ UNCHANGED mainVars

GetEventCount ==
    /\ last' = [op |-> "getEventCount", ret |-> getEventCount(self)]
    /\ UNCHANGED <<self, mainVars>>

GetEvent ==
    \E eventID \in -(MaxEvents + 1)..(MaxEvents + 1) :
        /\ last' = [op |-> "getEvent", eventID |-> eventID,
                    ret |-> getEvent(self, eventID)]
        /\ UNCHANGED <<self, mainVars>>

FindEventBySummary ==
    \E srch \in Needles, startInx \in 0..(MaxEvents + 1) :
        LET r == findEventBySummary(self, srch, startInx)
        IN  /\ last' = [op |-> "findEventBySummary", srch |-> srch,
                        startInx |-> startInx, exc |-> r.exc,
                        inx |-> r.inx, event |-> r.event]
            /\ UNCHANGED <<self, mainVars>>

Next ==
    \/ Reset
    \/ CreateNew
    \/ ReadFromFile
    \/ AddEvent
    \/ GetEventCount
    \/ GetEvent
    \/ FindEventBySummary

Spec == Init /\ [][Next]_vars

TypeOK ==
    /\ self._events \in SeqUpTo(ContainerEvents, MaxEvents)
    /\ Len(self._calendar.subcomponents) <= MaxEvents

(***************************************************************************)
(* Claims about the container operations, checked under Spec.              *)
(***************************************************************************)
\* The positions a caller may ask for, in and out of range.
Positions == -(MaxEvents + 1)..(MaxEvents + 1)

\* The VEVENT components of a decoded document, in document order.
DecodedEvents(doc) ==
    LET IsEvent(c) == c.name = "VEVENT"
        kept == SelectSeq(doc.subcomponents, IsEvent)
    IN  [i \in 1..Len(kept) |-> kept[i].fields]

\* The SUMMARY of the event at position i (from 0) holds the needle,
\* letter case aside.
SummaryMatches(s, srch, i) ==
    Contains(Upper(srch), Upper(Get(s._events[i + 1], SUMMARY)))

\* C4: on an initialized container and for startInx >= 0, findEventBySummary
\* returns (i, event i) for the smallest i >= startInx whose SUMMARY holds
\* the needle case-insensitively, and returns (startInx, None) without
\* raising when there is none, also when startInx is at or past the event
\* count and when the container holds no event.
C4_FindBySummaryTotal ==
    (last.op = "findEventBySummary" /\ self._calendar.props # {}) =>
        LET hits == {i \in last.startInx..(getEventCount(self) - 1) :
                        SummaryMatches(self, last.srch, i)}
        IN  /\ last.exc = "none"
            /\ IF hits # {}
               THEN LET first == CHOOSE i \in hits : \A j \in hits : i <= j
                    IN  /\ last.inx = first
                        /\ last.event = Some(self._events[first + 1])
               ELSE /\ last.inx = last.startInx
                    /\ last.event = None

\* C5: after reset() and after createNew(), from any state, the container
\* holds no events (getEventCount() = 0 and getEvent(i) is None for every
\* i); after reset() it has no metadata either, and a second reset() changes
\* nothing.
C5_ResetLeavesNoEvents ==
    (last.op \in {"reset", "createNew"}) =>
        /\ getEventCount(self) = 0
        /\ \A i \in Positions : getEvent(self, i) = None
        /\ (last.op = "reset") =>
              /\ self._calendar.props = {}
              /\ reset(self) = self

\* C7: getEvent(i) returns the event stored at position i when
\* 0 <= i < getEventCount(), and None for every other i, the negative ones
\* included; it never returns the event of another position.
C7_GetEventInRangeOnly ==
    (last.op = "getEvent") =>
        IF 0 <= last.eventID /\ last.eventID < getEventCount(self)
        THEN last.ret = Some(self._events[last.eventID + 1])
        ELSE last.ret = None

\* C8: readFromFile is accepted only on an empty container.  On a container
\* that holds metadata or events it returns False and changes nothing; on an
\* empty container with a decodable file it returns True and the events
\* become the decoded VEVENT sequence in document order.
C8_LoadOnlyIntoEmpty ==
    [][(last'.op = "readFromFile") =>
        /\ (self._calendar.props # {} \/ getEventCount(self) > 0) =>
              /\ last'.ret = FALSE
              /\ self' = self
        /\ (self = __init__(self._verbosity) /\ last'.file.open = "ok"
                /\ last'.file.decodable) =>
              /\ last'.ret = TRUE
              /\ self'._events = DecodedEvents(last'.file.doc)
              /\ getEventCount(self') = Len(DecodedEvents(last'.file.doc))
      ]_vars

(***************************************************************************)
(* The recency filter, called on a container loaded from a document.       *)
(***************************************************************************)
FilterEnds == {Date(0), DateTime(0, 1), DateTime(1, 1)}

FilterUntils == {Date(0), DateTime(1, 1)}

FilterRules ==
    {[FREQ |-> <<"WEEKLY">>]}
    \cup {[FREQ |-> <<"WEEKLY">>, UNTIL |-> <<u>>] : u \in FilterUntils}

\* Events with and without DTEND and RRULE (open-ended or with UNTIL), each
\* with a SUMMARY, and the events without RRULE once more without SUMMARY.
FilterEvents ==
    LET ends == {{}} \cup {{<<DTEND, e>>} : e \in FilterEnds}
        rules == {{}} \cup {{<<RRULE, x>>} : x \in FilterRules}
    IN  {d \cup r \cup {<<SUMMARY, <<"A">>>>} : d \in ends, r \in rules}
        \cup ends

FilterDocs ==
    {[props |-> Metadata, subcomponents |-> c] :
        c \in SeqUpTo({[name |-> "VEVENT", fields |-> e] : e \in FilterEvents},
                      MaxEvents)}

FilterInit ==
    /\ \E verbosity \in BOOLEAN : self = __init__(verbosity)
    /\ last = [op |-> "__init__"]
    /\ MainIdle

\* The caller loads the container once, right after constructing it.
LoadEvents ==
    /\ last.op = "__init__"
    /\ \E doc \in FilterDocs :
        LET r == readFromFile(self, [open |-> "ok", decodable |-> TRUE, doc |-> doc])
        IN  /\ self' = r.self
            /\ last' = [op |-> "readFromFile", ret |-> r.ret, exc |-> r.exc]
    /\ UNCHANGED mainVars

FindEventsByDateAfter ==
    \E today \in 0..MaxDay, months \in 0..MaxMonths :
        LET r == findEventsByDateAfter(self, today, months)
        IN  /\ last' = [op |-> "findEventsByDateAfter",
                        cutoff |-> cutoffDate(today, months).day,
                        exc |-> r.exc, ret |-> r.ret]
            /\ UNCHANGED <<self, mainVars>>

FilterNext ==
    \/ LoadEvents
    \/ FindEventsByDateAfter

SpecFilter == FilterInit /\ [][FilterNext]_vars

(***************************************************************************)
(* Claims about the recency filter, checked under SpecFilter.              *)
(***************************************************************************)
\* DTEND truncated to a date, as a day.
EndDay(e) == Get(e, DTEND).day

HasUntil(e) == Has(e, RRULE) /\ "UNTIL" \in DOMAIN Get(e, RRULE)

\* The first UNTIL value truncated to a date, as a day.
UntilDay(e) == Get(e, RRULE).UNTIL[1].day

\* recurring(e): false without RRULE, true with an RRULE without UNTIL, and
\* UNTIL >= cutoff with an RRULE that has UNTIL.
RecurringRule(e, cutoff) ==
    Has(e, RRULE) /\ (HasUntil(e) => UntilDay(e) >= cutoff)

\* end(e) >= cutoff OR recurring(e)
SurvivalRule(e, cutoff) == EndDay(e) >= cutoff \/ RecurringRule(e, cutoff)

AllHaveDtend(events) == \A i \in 1..Len(events) : Has(events[i], DTEND)

SurvivorsOf(events, cutoff) ==
    LET Keep(e) == SurvivalRule(e, cutoff)
    IN  SelectSeq(events, Keep)

Filtered == last.op = "findEventsByDateAfter"

\* The event is in the list the filter returned.
Survived(e) == \E j \in 1..Len(last.ret) : last.ret[j] = e

\* C1: for every event sequence whose events all carry DTEND and every
\* cutoff, the filter returns exactly the subsequence of the events with
\* end >= cutoff or recurring, in their order, nothing added or repeated.
C1_FilterReturnsSurvivors ==
    (Filtered /\ AllHaveDtend(self._events)) =>
        /\ last.exc = "none"
        /\ last.ret = SurvivorsOf(self._events, last.cutoff)

\* The contract of C1 where no print of a verbose run can fail: verbosity
\* off, or every event has a SUMMARY.
FilterReturnsSurvivorsWhenPrintable ==
    (/\ Filtered
     /\ AllHaveDtend(self._events)
     /\ (self._verbosity =>
            \A i \in 1..Len(self._events) : Has(self._events[i], SUMMARY))) =>
        /\ last.exc = "none"
        /\ last.ret = SurvivorsOf(self._events, last.cutoff)

\* C2 as stated: an event whose RRULE has UNTIL with first value d survives
\* the filter if and only if d >= cutoff, whatever its DTEND is.
C2_UntilAloneDecides ==
    (Filtered /\ last.exc = "none") =>
        \A i \in 1..Len(self._events) :
            LET e == self._events[i]
            IN  HasUntil(e) => (Survived(e) <=> UntilDay(e) >= last.cutoff)

\* C2 as amended: when the filter returns its list, an event whose RRULE has
\* UNTIL with first value d is in it if and only if d >= cutoff or its DTEND,
\* as a date, is >= cutoff; with DTEND before the cutoff, d alone decides.
C2_UntilOrEndDecides ==
    (Filtered /\ last.exc = "none") =>
        \A i \in 1..Len(self._events) :
            LET e == self._events[i]
            IN  HasUntil(e) =>
                    /\ Survived(e) <=>
                          (UntilDay(e) >= last.cutoff \/ EndDay(e) >= last.cutoff)
                    /\ (EndDay(e) < last.cutoff) =>
                          (Survived(e) <=> UntilDay(e) >= last.cutoff)

\* The filter returned and kept an event whose UNTIL is before the cutoff,
\* on its DTEND, and dropped one whose UNTIL and DTEND are both before it.
C2_Witness ==
    /\ Filtered
    /\ last.exc = "none"
    /\ \E i \in 1..Len(self._events) :
          LET e == self._events[i]
          IN  /\ HasUntil(e)
              /\ UntilDay(e) < last.cutoff
              /\ EndDay(e) >= last.cutoff
              /\ Survived(e)
    /\ \E i \in 1..Len(self._events) :
          LET e == self._events[i]
          IN  /\ HasUntil(e)
              /\ UntilDay(e) < last.cutoff
              /\ EndDay(e) < last.cutoff
              /\ ~Survived(e)

\* C6: an event without DTEND does not abort the batch: the filter still
\* returns, and the events that do carry DTEND are kept or dropped by the
\* survival rule, whether or not the offending event has an RRULE.
C6_MissingDtendDoesNotAbort ==
    (Filtered /\ ~AllHaveDtend(self._events)) =>
        /\ last.exc # "KeyError DTEND"
        /\ (last.exc = "none") =>
              LET WithDtend(e) == Has(e, DTEND)
              IN  SelectSeq(last.ret, WithDtend)
                    = SurvivorsOf(SelectSeq(self._events, WithDtend), last.cutoff)

(***************************************************************************)
(* The extension stripper, called on one event.                            *)
(***************************************************************************)
StripFields ==
    {<<SUMMARY, <<"A">>>>,
     <<DTEND, Date(0)>>,
     <<RRULE, [FREQ |-> <<"WEEKLY">>]>>,
     <<<<"U", "I", "D">>, <<"1">>>>,
     <<<<"X">>, <<"1">>>>,
     <<<<"X", "-", "A">>, <<"1">>>>,
     <<<<"X", "-", "W", "R", "-", "X", "-", "A">>, <<"1">>>>,
     <<<<"T", "A", "X", "-", "I", "D">>, <<"1">>>>}

\* Every event over those fields, the one without fields included.
StripEvents == SUBSET StripFields

StripInit ==
    /\ self = __init__(FALSE)
    /\ last = [op |-> "__init__"]
    /\ MainIdle

Strip ==
    \E event \in StripEvents :
        /\ last' = [op |-> "stripApplicationSpecificSubcomponents",
                    event |-> event,
                    ret |-> stripApplicationSpecificSubcomponents(event)]
        /\ UNCHANGED <<self, mainVars>>

StripNext == Strip

SpecStrip == StripInit /\ [][StripNext]_vars

\* The name begins with the two characters 'X-'.
BeginsWithXDash(name) == Len(name) >= 2 /\ name[1] = "X" /\ name[2] = "-"

\* C3: strip returns a record that holds exactly the fields of the input
\* whose name does not begin with 'X-', each with its value: a field with
\* 'X-' later in its name is kept, one that begins with it is removed.
C3_StripRemovesPrefixedOnly ==
    (last.op = "stripApplicationSpecificSubcomponents") =>
        last.ret = {f \in last.event : ~BeginsWithXDash(f[1])}

(***************************************************************************)
(* The command-line pipeline: the __main__ block, statement by statement.  *)
(***************************************************************************)
EvKeptX ==
    {<<SUMMARY, <<"A">>>>, <<DTEND, DateTime(1, 1)>>, <<<<"X", "-", "A">>, <<"1">>>>}

EvOld == {<<SUMMARY, <<"b">>>>, <<DTEND, Date(0)>>}

EvOpenEnded ==
    {<<DTEND, Date(0)>>, <<RRULE, [FREQ |-> <<"WEEKLY">>]>>,
     <<<<"T", "A", "X", "-", "I", "D">>, <<"1">>>>}

EvNoDtend == {<<SUMMARY, <<"c">>>>}

MainEvents == {EvKeptX, EvOld, EvOpenEnded, EvNoDtend}

MainDocs ==
    {[props |-> p, subcomponents |-> c] :
        p \in {{}, Metadata},
        c \in SeqUpTo({[name |-> "VEVENT", fields |-> e] : e \in MainEvents},
                      MaxEvents)}

\* What open(), to_ical() and write() can do for the output file.
WriteOutcomes == {"ok", "OSError", "ValueError"}

\* The command line, the two files and the clock of one run.
MainArgs ==
    [infile : FilesOver(MainDocs),
     outfile : WriteOutcomes,
     verbose : BOOLEAN,
     stripAppSpecific : BOOLEAN,
     monthsBefore : 0..MaxMonths,
     today : 0..MaxDay]

\* Line 264 and line 270 construct the two objects; nothing reads outcal
\* before line 271.  The exit status is -1 while the script runs.
MainInit ==
    /\ args \in MainArgs
    /\ pc = "readFromFile"
    /\ incal = __init__(args.verbose)
    /\ outcal = __init__(args.verbose)
    /\ todo = <<>>
    /\ run = [filtered |-> <<>>, wrote |-> "not yet", exit |-> -1]
    /\ self = __init__(FALSE)
    /\ last = [op |-> "__main__"]

\* Lines 264-267.  An exception nothing catches ends the script with status 1.
MainReadFromFile ==
    /\ pc = "readFromFile"
    /\ LET r == readFromFile(incal, args.infile)
       IN  IF r.exc # "none" \/ ~r.ret
           THEN /\ pc' = "exit"
                /\ run' = [run EXCEPT !.exit = 1]
                /\ UNCHANGED incal
           ELSE /\ pc' = "createNew"
                /\ incal' = r.self
                /\ UNCHANGED run
    /\ UNCHANGED <<self, last, args, outcal, todo>>

\* The script without its call of createNew.
MainSkipsCreateNew ==
    /\ pc = "createNew"
    /\ pc' = "findEventsByDateAfter"
    /\ UNCHANGED <<self, last, args, incal, outcal, todo, run>>

\* Lines 270-271.
MainCreateNew ==
    /\ pc = "createNew"
    /\ outcal' = createNew(outcal)
    /\ pc' = "findEventsByDateAfter"
    /\ UNCHANGED <<self, last, args, incal, todo, run>>

\* Line 276: the list the for statement iterates over.
MainFindEvents ==
    /\ pc = "findEventsByDateAfter"
    /\ LET r == findEventsByDateAfter(incal, args.today, args.monthsBefore)
       IN  IF r.exc # "none"
           THEN /\ pc' = "exit"
                /\ run' = [run EXCEPT !.exit = 1]
                /\ UNCHANGED todo
           ELSE /\ pc' = "for"
                /\ todo' = r.ret
                /\ run' = [run EXCEPT !.filtered = r.ret]
    /\ UNCHANGED <<self, last, args, incal, outcal>>

\* Lines 276-280: one pass of the loop body.
MainAddEvent ==
    /\ pc = "for"
    /\ todo # <<>>
    /\ LET event == Head(todo)
       IN  outcal' = addEvent(outcal,
                        IF args.stripAppSpecific
                        THEN stripApplicationSpecificSubcomponents(event)
                        ELSE event)
    /\ todo' = Tail(todo)
    /\ UNCHANGED <<self, last, pc, args, incal, run>>

\* Line 282, reached when the loop is done; the value writeToFile returns is
\* not looked at, and the script ends with status 0.
MainWriteToFile ==
    /\ pc = "for"
    /\ todo = <<>>
    /\ LET r == writeToFile(outcal, args.outfile)
       IN  run' = [run EXCEPT !.wrote = r.wrote, !.exit = 0]
    /\ pc' = "exit"
    /\ UNCHANGED <<self, last, args, incal, outcal, todo>>

MainNext ==
    \/ MainReadFromFile
    \/ MainCreateNew
    \/ MainFindEvents
    \/ MainAddEvent
    \/ MainWriteToFile

SpecMain == MainInit /\ [][MainNext]_vars

(***************************************************************************)
(* Claims about the pipeline, checked under SpecMain.                      *)
(***************************************************************************)
\* The run hit a fatal error: the input did not open, did not decode, or
\* the output was not written.
FatalError ==
    \/ args.infile.open # "ok"
    \/ ~args.infile.decodable
    \/ run.wrote \in {"failed", "refused"}

\* C9: a run that hits a fatal error (input not opened, input not decoded,
\* output not written or encoded) ends with a non-zero status; a run ends
\* with status zero only if the output document was written.
C9_FatalErrorExitsNonZero ==
    (pc = "exit") =>
        /\ FatalError => run.exit # 0
        /\ (run.exit = 0) => run.wrote = "written"

\* The metadata createNew gives a calendar.
HasNewMetadata(s) ==
    s._calendar.props
        = {<<"PRODID", "Matty cleaned calendar">>, <<"VERSION", "2.0">>}

\* What the loop adds for one surviving event.
AddedFor(event) ==
    IF args.stripAppSpecific
    THEN stripApplicationSpecificSubcomponents(event)
    ELSE event

AddedForAll(events) == [i \in 1..Len(events) |-> AddedFor(events[i])]

\* The write step was taken.
AtWrite == pc = "exit" /\ run.wrote # "not yet"

====
